---- MODULE Spec2Model ----
(***************************************************************************)
(* Result splicer of the pinning subsystem: applyPinningRules of           *)
(* packages/orama/src/components/pinning-manager.ts.                       *)
(*                                                                         *)
(* A TokenScore is the pair <<internalId, score>>.  A promotion is the     *)
(* record [doc_id, position]; a rule is the record [id, promote] of its    *)
(* id and its consequence.promote list.  A JavaScript Map is an            *)
(* insertion-ordered sequence of <<key, value>> entries, because the code  *)
(* iterates its maps.  The rule store orama.data.pinning is changed by     *)
(* insertPin, updatePin and deletePin of the public pinning methods.       *)
(***************************************************************************)
EXTENDS Integers, Sequences, FiniteSets, TLC

\* ---- bounds of the explored inputs ----
MaxPos == 2          \* promotion positions are 0..MaxPos
MaxOrganic == 3      \* length of the organic list
TopScore == 9        \* score of the best organic hit
\* lengths of the promote lists of the matched rules, in matcher order
RuleShapes == {<<>>, <<1>>, <<2>>, <<3>>, <<1, 1>>, <<1, 2>>, <<2, 1>>, <<1, 1, 1>>}
\* lengths of the promote lists of a store that insertPin and updatePin build
StoreShapes == {<<>>, <<1>>, <<1, 1>>}

\* ---- program constants ----
BASE_PIN_SCORE == 1000000
NoId == 0            \* getInternalDocumentId(...) === undefined

\* external document ids; the document inserted k-th has internal id k
ExtIds == <<"a", "b", "c">>
ExtIdSet == {ExtIds[k] : k \in 1..Len(ExtIds)}
InternalIdOf(d) == CHOOSE k \in 1..Len(ExtIds) : ExtIds[k] = d

\* rule ids
RuleIds == <<"r1", "r2", "r3">>
RuleIdSet == {RuleIds[k] : k \in 1..Len(RuleIds)}

VARIABLES
  internalDocumentIDStore,  \* orama.internalDocumentIDStore: doc_id -> internal id or NoId
  documentsStore,           \* orama.documentsStore / orama.data.docs: internal ids that exist
  pinning,                  \* orama.data.pinning: the rules, in the store's iteration order
  storeChanged,             \* the store was changed after the call on uniqueDocsArray
  uniqueDocsArray,          \* the organic list handed to the first call
  pc,                       \* "ready", "applied", "reapplied"
  firstPromotionsMap,       \* promotionsMap of the call on uniqueDocsArray, when it returns
  firstWalked,              \* its finalResults when the while loop ends
  firstResult,              \* list returned by the call on uniqueDocsArray
  secondResult              \* list returned by the call on firstResult

vars == <<internalDocumentIDStore, documentsStore, pinning, storeChanged, uniqueDocsArray,
          pc, firstPromotionsMap, firstWalked, firstResult, secondResult>>

\* ---------------------------------------------------------------------
\* helpers: sequences and insertion-ordered maps
\* ---------------------------------------------------------------------
Range(s) == {s[k] : k \in 1..Len(s)}
Ids(arr) == {arr[k][1] : k \in 1..Len(arr)}

MapHas(m, key) == \E k \in 1..Len(m) : m[k][1] = key
MapGet(m, key) == m[CHOOSE k \in 1..Len(m) : m[k][1] = key][2]
\* Map.prototype.set: an existing key keeps its place in the iteration order
MapSet(m, key, val) ==
  IF MapHas(m, key)
  THEN [k \in 1..Len(m) |-> IF m[k][1] = key THEN <<key, val>> ELSE m[k]]
  ELSE Append(m, <<key, val>>)

\* getInternalDocumentId(orama.internalDocumentIDStore, promotion.doc_id)
getInternalDocumentId(store, doc_id) == store[doc_id]

\* ---------------------------------------------------------------------
\* the rule store (rule store and rule matcher of the specification); the
\* searched term is an explicit query and the conditions of every modelled
\* rule hold for it
\* ---------------------------------------------------------------------
StoreHas(store, ruleId) == \E k \in 1..Len(store) : store[k].id = ruleId

\* addRule: fails when the id exists, and then the store is as before
addRule(store, rule) ==
  IF StoreHas(store, rule.id) THEN store ELSE Append(store, rule)

\* updateRule: fails when the id is absent; the rule keeps its place
updateRule(store, rule) ==
  [k \in 1..Len(store) |-> IF store[k].id = rule.id THEN rule ELSE store[k]]

\* removeRule: never fails
removeRule(store, ruleId) == SelectSeq(store, LAMBDA rule : rule.id # ruleId)

\* the matching rules in the order of the store's iteration
getMatchingRules(store) == store

\* line 20: the rules that applyPinningRules gets for the searched term
matchingRules == getMatchingRules(pinning)

\* ---------------------------------------------------------------------
\* lines 26-30: flatten the promotions and sort them by position
\* ---------------------------------------------------------------------
RECURSIVE FlatMapPromote(_)
FlatMapPromote(rules) ==
  IF rules = <<>> THEN <<>>
  ELSE Head(rules).promote \o FlatMapPromote(Tail(rules))

\* Array.prototype.sort with a numeric comparator is a stable sort: an insertion
\* sort over <<key, item>> pairs that puts each item behind the items whose
\* key is not greater
InsertStable(sorted, x) ==
  LET k == Cardinality({j \in 1..Len(sorted) : sorted[j][1] <= x[1]})
  IN SubSeq(sorted, 1, k) \o <<x>> \o SubSeq(sorted, k + 1, Len(sorted))

RECURSIVE StableSort(_, _)
StableSort(keyed, acc) ==
  IF keyed = <<>> THEN [k \in 1..Len(acc) |-> acc[k][2]]
  ELSE StableSort(Tail(keyed), InsertStable(acc, Head(keyed)))

\* variant: the promotions stay in matcher order
UnsortedPromotions(promotions) == promotions

\* allPromotions.sort((a, b) => a.position - b.position)
SortByPosition(promotions) ==
  StableSort([k \in 1..Len(promotions) |-> <<promotions[k].position, promotions[k]>>], <<>>)

AllPromotions(rules) == SortByPosition(FlatMapPromote(rules))

\* ---------------------------------------------------------------------
\* lines 32-62: conflict resolution
\* ---------------------------------------------------------------------
EmptyPins == [pinnedInternalIds |-> {}, promotionsMap |-> <<>>, positionsTaken |-> {}]

\* variant: positionsTaken is not consulted
ClaimEvenIfTaken(st, promotion, idStore) ==
  LET internalId == getInternalDocumentId(idStore, promotion.doc_id) IN
  IF internalId = NoId THEN st
  ELSE IF MapHas(st.promotionsMap, internalId) THEN st
  ELSE [pinnedInternalIds |-> st.pinnedInternalIds \cup {internalId},
        promotionsMap |-> MapSet(st.promotionsMap, internalId, promotion.position),
        positionsTaken |-> st.positionsTaken \cup {promotion.position}]

\* one iteration of `for (const promotion of allPromotions)`
ProcessPromotion(st, promotion, idStore) ==
  LET internalId == getInternalDocumentId(idStore, promotion.doc_id) IN
  IF internalId = NoId THEN st
  ELSE IF MapHas(st.promotionsMap, internalId)
       THEN IF promotion.position < MapGet(st.promotionsMap, internalId)
            THEN [st EXCEPT !.promotionsMap =
                               MapSet(st.promotionsMap, internalId, promotion.position)]
            ELSE st
  ELSE IF promotion.position \in st.positionsTaken THEN st
  ELSE [pinnedInternalIds |-> st.pinnedInternalIds \cup {internalId},
        promotionsMap |-> MapSet(st.promotionsMap, internalId, promotion.position),
        positionsTaken |-> st.positionsTaken \cup {promotion.position}]

RECURSIVE ResolvePromotions(_, _, _)
ResolvePromotions(promotions, st, idStore) ==
  IF promotions = <<>> THEN st
  ELSE ResolvePromotions(Tail(promotions),
                         ProcessPromotion(st, Head(promotions), idStore), idStore)

Pins(rules, idStore) == ResolvePromotions(AllPromotions(rules), EmptyPins, idStore)

\* ---------------------------------------------------------------------
\* lines 69-100: partition the organic list, score the pins
\* ---------------------------------------------------------------------
\* variant: the pinned documents stay in the organic part
UnfilteredResults(arr, pinnedInternalIds) == arr

\* uniqueDocsArray.filter(([id]) => !pinnedInternalIds.has(id))
UnpinnedResults(arr, pinnedInternalIds) ==
  SelectSeq(arr, LAMBDA e : e[1] \notin pinnedInternalIds)

\* variant: a pinned organic document keeps its organic score
KeepOrganicScore(entry, arr, docs) ==
  IF entry[1] \in Ids(arr)
  THEN <<arr[CHOOSE k \in 1..Len(arr) : arr[k][1] = entry[1]]>>
  ELSE IF entry[1] \in docs THEN << <<entry[1], 0>> >> ELSE <<>>

\* variant: the document store is not consulted
ScorePinUnchecked(entry, arr, docs) ==
  IF entry[1] \in Ids(arr)
  THEN << <<entry[1], BASE_PIN_SCORE - entry[2]>> >>
  ELSE << <<entry[1], 0>> >>

\* variant: a document promoted from outside is scored by its position too
ScorePinByPosition(entry, arr, docs) ==
  IF entry[1] \in Ids(arr) \/ entry[1] \in docs
  THEN << <<entry[1], BASE_PIN_SCORE - entry[2]>> >>
  ELSE <<>>

\* body of `for (const [internalId, position] of promotionsMap.entries())`:
\* the TokenScores pushed for one entry
ScorePin(entry, arr, docs) ==
  IF entry[1] \in Ids(arr)
  THEN << <<entry[1], BASE_PIN_SCORE - entry[2]>> >>
  ELSE IF entry[1] \in docs THEN << <<entry[1], 0>> >> ELSE <<>>

RECURSIVE PinnedResults(_, _, _)
PinnedResults(entries, arr, docs) ==
  IF entries = <<>> THEN <<>>
  ELSE ScorePin(Head(entries), arr, docs) \o PinnedResults(Tail(entries), arr, docs)

RECURSIVE ReverseSeq(_)
ReverseSeq(s) == IF s = <<>> THEN <<>> ELSE Append(ReverseSeq(Tail(s)), Head(s))

\* variant: the comparator is posB - posA
SortPinnedDescending(pinnedResults, promotionsMap) ==
  ReverseSeq(StableSort([k \in 1..Len(pinnedResults) |->
               <<MapGet(promotionsMap, pinnedResults[k][1]), pinnedResults[k]>>], <<>>))

\* pinnedResults.sort((a, b) => posA - posB)
SortPinned(pinnedResults, promotionsMap) ==
  StableSort([k \in 1..Len(pinnedResults) |->
               <<MapGet(promotionsMap, pinnedResults[k][1]), pinnedResults[k]>>], <<>>)

\* lines 104-109: pinnedByPosition.set(position, pinnedResult)
RECURSIVE PinnedByPosition(_, _, _)
PinnedByPosition(pinnedResults, promotionsMap, acc) ==
  IF pinnedResults = <<>> THEN acc
  ELSE PinnedByPosition(Tail(pinnedResults), promotionsMap,
         MapSet(acc, MapGet(promotionsMap, Head(pinnedResults)[1]), Head(pinnedResults)))

\* ---------------------------------------------------------------------
\* lines 111-129: the position walk
\* ---------------------------------------------------------------------
\* variant: the pins are looked up one position ahead
RECURSIVE WalkOneBased(_, _, _, _, _, _)
WalkOneBased(finalResults, unpinnedIndex, currentPosition, unpinnedResults, pinnedResults, pinnedByPosition) ==
  IF ~(currentPosition < Len(unpinnedResults) + Len(pinnedResults)) THEN finalResults
  ELSE IF MapHas(pinnedByPosition, currentPosition + 1)
       THEN WalkOneBased(Append(finalResults, MapGet(pinnedByPosition, currentPosition + 1)),
                         unpinnedIndex, currentPosition + 1,
                         unpinnedResults, pinnedResults, pinnedByPosition)
  ELSE IF unpinnedIndex < Len(unpinnedResults)
       THEN WalkOneBased(Append(finalResults, unpinnedResults[unpinnedIndex + 1]),
                         unpinnedIndex + 1, currentPosition + 1,
                         unpinnedResults, pinnedResults, pinnedByPosition)
  ELSE finalResults

\* variant: the loop bound leaves out pinnedResults.length
RECURSIVE WalkBoundedByUnpinned(_, _, _, _, _, _)
WalkBoundedByUnpinned(finalResults, unpinnedIndex, currentPosition, unpinnedResults, pinnedResults, pinnedByPosition) ==
  IF ~(currentPosition < Len(unpinnedResults)) THEN finalResults
  ELSE IF MapHas(pinnedByPosition, currentPosition)
       THEN WalkBoundedByUnpinned(Append(finalResults, MapGet(pinnedByPosition, currentPosition)),
                                  unpinnedIndex, currentPosition + 1,
                                  unpinnedResults, pinnedResults, pinnedByPosition)
  ELSE IF unpinnedIndex < Len(unpinnedResults)
       THEN WalkBoundedByUnpinned(Append(finalResults, unpinnedResults[unpinnedIndex + 1]),
                                  unpinnedIndex + 1, currentPosition + 1,
                                  unpinnedResults, pinnedResults, pinnedByPosition)
  ELSE finalResults

\* the while loop, from the state (finalResults, unpinnedIndex, currentPosition)
RECURSIVE Walk(_, _, _, _, _, _)
Walk(finalResults, unpinnedIndex, currentPosition, unpinnedResults, pinnedResults, pinnedByPosition) ==
  IF ~(currentPosition < Len(unpinnedResults) + Len(pinnedResults)) THEN finalResults
  ELSE IF MapHas(pinnedByPosition, currentPosition)
       THEN Walk(Append(finalResults, MapGet(pinnedByPosition, currentPosition)),
                 unpinnedIndex, currentPosition + 1,
                 unpinnedResults, pinnedResults, pinnedByPosition)
  ELSE IF unpinnedIndex < Len(unpinnedResults)
       THEN Walk(Append(finalResults, unpinnedResults[unpinnedIndex + 1]),
                 unpinnedIndex + 1, currentPosition + 1,
                 unpinnedResults, pinnedResults, pinnedByPosition)
  ELSE finalResults

\* ---------------------------------------------------------------------
\* lines 131-136: pins beyond the walked list
\* ---------------------------------------------------------------------
RECURSIVE AppendRemaining(_, _)
AppendRemaining(finalResults, entries) ==
  IF entries = <<>> THEN finalResults
  ELSE AppendRemaining(
         IF Head(entries)[1] >= Len(finalResults)
         THEN Append(finalResults, Head(entries)[2]) ELSE finalResults,
         Tail(entries))

\* the locals of one call that got past both early returns
Splice(arr, rules, idStore, docs) ==
  LET pins == Pins(rules, idStore)
      unpinnedResults == UnpinnedResults(arr, pins.pinnedInternalIds)
      pinnedResults == SortPinned(PinnedResults(pins.promotionsMap, arr, docs),
                                  pins.promotionsMap)
      pinnedByPosition == PinnedByPosition(pinnedResults, pins.promotionsMap, <<>>)
      walked == Walk(<<>>, 0, 0, unpinnedResults, pinnedResults, pinnedByPosition)
  IN [promotionsMap |-> pins.promotionsMap,
      unpinnedResults |-> unpinnedResults,
      pinnedResults |-> pinnedResults,
      pinnedByPosition |-> pinnedByPosition,
      walked |-> walked,
      finalResults |-> AppendRemaining(walked, pinnedByPosition)]

\* one call with its two early returns: the value returned (finalResults) and
\* the locals as they are when it returns
Call(arr, rules, idStore, docs) ==
  IF Len(rules) = 0
  THEN [promotionsMap |-> <<>>, walked |-> <<>>, finalResults |-> arr]
  ELSE IF Len(Pins(rules, idStore).promotionsMap) = 0
  THEN [promotionsMap |-> <<>>, walked |-> <<>>, finalResults |-> arr]
  ELSE Splice(arr, rules, idStore, docs)

\* applyPinningRules(orama, pinningStore, uniqueDocsArray, searchTerm)
applyPinningRules(arr, rules, idStore, docs) == Call(arr, rules, idStore, docs).finalResults

\* ---------------------------------------------------------------------
\* inputs
\* ---------------------------------------------------------------------
PromotionSet == [doc_id : ExtIdSet, position : 0..MaxPos]

\* the promote lists of a given length; within a rule the positions are distinct
PromoteLists(n) ==
  {q \in [1..n -> PromotionSet] :
     \A i, j \in 1..n : i # j => q[i].position # q[j].position}

\* the lists of matched rules of a given shape
RECURSIVE RulesOfShape(_)
RulesOfShape(shape) ==
  IF shape = <<>> THEN {<<>>}
  ELSE {<<[promote |-> q]>> \o rest :
          q \in PromoteLists(Head(shape)), rest \in RulesOfShape(Tail(shape))}

MatchedSet == UNION {RulesOfShape(shape) : shape \in RuleShapes}

\* the stores whose rules have these promote lists; the k-th rule has the k-th id
StoreOf(rules) == [k \in 1..Len(rules) |-> [id |-> RuleIds[k], promote |-> rules[k].promote]]
StoreSet == {StoreOf(rules) : rules \in MatchedSet}

\* the rules handed to insertPin and updatePin
PinIds == {RuleIds[1], RuleIds[2]}
PinRuleSet == {[id |-> ruleId, promote |-> q] : ruleId \in PinIds, q \in PromoteLists(1)}
StoreShape(store) == [k \in 1..Len(store) |-> Len(store[k].promote)]

IdStoreSet ==
  {f \in [ExtIdSet -> 0..Len(ExtIds)] :
     \A d \in ExtIdSet : f[d] \in {NoId, InternalIdOf(d)}}

\* the ranker's list: distinct stored documents, best score first
OrganicSet(docs) ==
  {[k \in 1..Len(s) |-> <<s[k], TopScore - (k - 1)>>] :
     s \in {t \in UNION {[1..n -> docs] : n \in 0..MaxOrganic} :
              \A i, j \in 1..Len(t) : i # j => t[i] # t[j]}}

\* the documents, the oracle answers and the organic list of the searched term
Inputs ==
  /\ internalDocumentIDStore \in IdStoreSet
  /\ documentsStore \in SUBSET ({internalDocumentIDStore[d] : d \in ExtIdSet} \ {NoId})
  /\ uniqueDocsArray \in OrganicSet(documentsStore)
  /\ pc = "ready"
  /\ storeChanged = FALSE
  /\ firstPromotionsMap = <<>>
  /\ firstWalked = <<>>
  /\ firstResult = <<>>
  /\ secondResult = <<>>

\* one call of applyPinningRules on any store
Init == Inputs /\ pinning \in StoreSet

\* the store after create(): no rule
InitStore == Inputs /\ pinning = <<>>

\* the search pipeline calls applyPinningRules on the ranker's list
Search ==
  /\ pc = "ready"
  /\ LET call == Call(uniqueDocsArray, getMatchingRules(pinning),
                      internalDocumentIDStore, documentsStore)
     IN /\ firstPromotionsMap' = call.promotionsMap
        /\ firstWalked' = call.walked
        /\ firstResult' = call.finalResults
  /\ pc' = "applied"
  /\ UNCHANGED <<internalDocumentIDStore, documentsStore, pinning, storeChanged,
                 uniqueDocsArray, secondResult>>

\* applyPinningRules is called again on the list it returned, with the rules
\* that the store holds at that time
Reapply ==
  /\ pc = "applied"
  /\ secondResult' = applyPinningRules(firstResult, getMatchingRules(pinning),
                                       internalDocumentIDStore, documentsStore)
  /\ pc' = "reapplied"
  /\ UNCHANGED <<internalDocumentIDStore, documentsStore, pinning, storeChanged,
                 uniqueDocsArray, firstPromotionsMap, firstWalked, firstResult>>

\* The public pinning methods change the rule store.  They are called before
\* the first search, and once more between the two searches.
\* insertPin(orama, rule)
insertPin ==
  \E rule \in PinRuleSet :
    LET store == addRule(pinning, rule)
    IN /\ pc \in {"ready", "applied"}
       /\ ~storeChanged
       /\ StoreShape(store) \in StoreShapes
       /\ pinning' = store
       /\ storeChanged' = (pc = "applied" /\ store # pinning)
       /\ UNCHANGED <<internalDocumentIDStore, documentsStore, uniqueDocsArray, pc,
                      firstPromotionsMap, firstWalked, firstResult, secondResult>>

\* updatePin(orama, rule)
updatePin ==
  \E rule \in PinRuleSet :
    LET store == updateRule(pinning, rule)
    IN /\ pc \in {"ready", "applied"}
       /\ ~storeChanged
       /\ StoreShape(store) \in StoreShapes
       /\ pinning' = store
       /\ storeChanged' = (pc = "applied" /\ store # pinning)
       /\ UNCHANGED <<internalDocumentIDStore, documentsStore, uniqueDocsArray, pc,
                      firstPromotionsMap, firstWalked, firstResult, secondResult>>

\* deletePin(orama, ruleId)
deletePin ==
  \E ruleId \in RuleIdSet :
    LET store == removeRule(pinning, ruleId)
    IN /\ pc \in {"ready", "applied"}
       /\ ~storeChanged
       /\ StoreShape(store) \in StoreShapes
       /\ pinning' = store
       /\ storeChanged' = (pc = "applied" /\ store # pinning)
       /\ UNCHANGED <<internalDocumentIDStore, documentsStore, uniqueDocsArray, pc,
                      firstPromotionsMap, firstWalked, firstResult, secondResult>>

Next == Search

Spec == Init /\ [][Next]_vars

NextStore == insertPin \/ updatePin \/ deletePin \/ Search \/ Reapply

SpecStore == InitStore /\ [][NextStore]_vars

\* =====================================================================
\* Properties of the first call (firstResult) and of the second (secondResult)
\* =====================================================================
Called == pc # "ready"

\* promotionsMap of the first call: <<internalId, claimed position>> in insertion order
Placed == firstPromotionsMap
PlacedSet == Range(Placed)
PinnedDocs == {e[1] : e \in PlacedSet}
\* the first call got past both early returns
Spliced == Len(matchingRules) > 0 /\ Len(Placed) > 0
\* length of the list the position walk built
WalkedLen == Len(firstWalked)

\* the promotions of the matched rules in matcher order, then declaration order
Flattened == FlatMapPromote(matchingRules)
IdOf(promotion) == internalDocumentIDStore[promotion.doc_id]
Resolves(promotion) == IdOf(promotion) # NoId
Exists(id) == id \in Ids(uniqueDocsArray) \/ id \in documentsStore
Stale(promotion) == ~Resolves(promotion) \/ ~Exists(IdOf(promotion))

\* ids of the valid promoted documents, read off the rules and the oracles
ValidPromotedIds ==
  {IdOf(Flattened[i]) : i \in {j \in 1..Len(Flattened) : ~Stale(Flattened[j])}}
\* the pins that can be shown: placed and existing
ValidPins == {e \in PlacedSet : Exists(e[1])}

NoDuplicateIds(arr) == \A i, j \in 1..Len(arr) : i # j => arr[i][1] # arr[j][1]
ScoresOf(arr, id) == {arr[k][2] : k \in {j \in 1..Len(arr) : arr[j][1] = id}}
IsUnpinned(e) == e[1] \notin PinnedDocs

\* ---------------------------------------------------------------------
\* C1 as stated: every pinned document that appears in the output with a
\* claimed position i smaller than the length of the output is the entry at
\* index i of the output.
C1_PositionHonoring ==
  Called =>
    \A e \in PlacedSet :
      (e[1] \in Ids(firstResult) /\ e[2] < Len(firstResult))
        => firstResult[e[2] + 1][1] = e[1]

\* C1 amended: every pinned document that appears in the output with a claimed
\* position i smaller than the length of the list built by the position walk
\* (before the pins beyond it are appended) is the entry at index i of the output.
C1_PositionHonoringWalked ==
  (Called /\ Spliced) =>
    \A e \in PlacedSet :
      (e[1] \in Ids(firstResult) /\ e[2] < WalkedLen)
        => firstResult[e[2] + 1][1] = e[1]

\* a pin honoured inside the walked list and a pin appended beyond it
C1_Witness ==
  /\ pc = "applied" /\ Spliced
  /\ \E e \in ValidPins : e[2] < WalkedLen /\ firstResult[e[2] + 1][1] = e[1]
  /\ \E e \in ValidPins : e[2] >= WalkedLen /\ e[1] \in Ids(firstResult)

\* ---------------------------------------------------------------------
\* C2: the returned list holds no internal id twice, and every id in it is an
\* id of the organic list or the id of a valid promoted document.
C2_NoDuplicatesAndSubset ==
  Called =>
    /\ NoDuplicateIds(firstResult)
    /\ Ids(firstResult) \subseteq (Ids(uniqueDocsArray) \cup ValidPromotedIds)

\* the output holds a pinned organic document and a document promoted from
\* outside the organic list
C2_Witness ==
  /\ pc = "applied"
  /\ \E id \in ValidPromotedIds : id \in Ids(uniqueDocsArray) /\ id \in Ids(firstResult)
  /\ \E id \in ValidPromotedIds : id \notin Ids(uniqueDocsArray) /\ id \in Ids(firstResult)

\* ---------------------------------------------------------------------
\* C3: the output with the pinned documents removed equals the organic list
\* with the pinned documents removed (same entries, order and scores).
C3_UnpinnedPreserved ==
  Called => SelectSeq(firstResult, IsUnpinned) = SelectSeq(uniqueDocsArray, IsUnpinned)

\* a pin lands between two unpinned documents
C3_Witness ==
  /\ pc = "applied" /\ Spliced
  /\ \E i, j, k \in 1..Len(firstResult) :
       /\ i < j /\ j < k
       /\ IsUnpinned(firstResult[i]) /\ ~IsUnpinned(firstResult[j])
       /\ IsUnpinned(firstResult[k])

\* ---------------------------------------------------------------------
\* C4: when no valid pin results from the query (no rule matches, or every
\* promotion is unresolvable or references a document that is neither in the
\* organic list nor in the store), the returned list equals the organic list.
C4_NoValidPinIsIdentity ==
  (Called /\ ValidPromotedIds = {}) => firstResult = uniqueDocsArray

\* rules matched, a promotion resolved and was placed, yet no pin is valid
C4_Witness ==
  /\ pc = "applied"
  /\ ValidPromotedIds = {}
  /\ Spliced
  /\ \E i \in 1..Len(Flattened) : ~Resolves(Flattened[i])
  /\ Len(uniqueDocsArray) > 0
  /\ firstResult = uniqueDocsArray

\* ---------------------------------------------------------------------
\* C8: a pinned document that was in the organic list carries 1000000 - p, one
\* that was only in the document store carries 0, and a placed document that is
\* in neither does not appear in the output.
C8_PinScores ==
  Called =>
    \A e \in PlacedSet :
      ScoresOf(firstResult, e[1]) =
        IF e[1] \in Ids(uniqueDocsArray) THEN {BASE_PIN_SCORE - e[2]}
        ELSE IF e[1] \in documentsStore THEN {0}
        ELSE {}

\* the three kinds of placed document in one call
C8_Witness ==
  /\ pc = "applied"
  /\ \E e \in PlacedSet : e[1] \in Ids(uniqueDocsArray) /\ e[2] > 0
  /\ \E e \in PlacedSet : e[1] \notin Ids(uniqueDocsArray) /\ e[1] \in documentsStore
  /\ \E e \in PlacedSet : ~Exists(e[1])

\* ---------------------------------------------------------------------
\* what the output holds behind the list built by the position walk
SparseTail == SubSeq(firstResult, WalkedLen + 1, Len(firstResult))

\* C9: behind the walked list come exactly the valid pins whose claimed
\* position is not smaller than its length, each once, in ascending order of
\* claimed position; no valid pin is left out of the output.
C9_SparseAppendedAscending ==
  (Called /\ Spliced) =>
    /\ \A e \in ValidPins : e[1] \in Ids(firstResult)
    /\ \A e \in ValidPins :
         e[2] >= WalkedLen =>
           Cardinality({k \in 1..Len(SparseTail) : SparseTail[k][1] = e[1]}) = 1
    /\ \A k \in 1..Len(SparseTail) :
         \E e \in ValidPins : e[1] = SparseTail[k][1] /\ e[2] >= WalkedLen
    /\ \A j, k \in 1..Len(SparseTail) :
         j < k => MapGet(Placed, SparseTail[j][1]) < MapGet(Placed, SparseTail[k][1])

\* two pins are appended behind the walked list
C9_Witness ==
  /\ pc = "applied" /\ Spliced
  /\ Len(SparseTail) >= 2
  /\ Len(firstResult) = Cardinality(ValidPins) + Len(SelectSeq(uniqueDocsArray, IsUnpinned))

\* ---------------------------------------------------------------------
\* C6 as stated: with the rule store as it was at the first call, the second
\* call returns a list equal to the list it was given.
C6_SecondCallIsNoOp ==
  (pc = "reapplied" /\ ~storeChanged) => secondResult = firstResult

\* C6 amended: with the rule store as it was at the first call, the second
\* call returns the same documents in the same order; the scores are the same
\* too, except that a pinned document the first call promoted from outside the
\* organic list (score 0) is rescored to 1000000 - p.
C6_SecondCallKeepsOrder ==
  (pc = "reapplied" /\ ~storeChanged) =>
    /\ Len(secondResult) = Len(firstResult)
    /\ \A k \in 1..Len(firstResult) :
         /\ secondResult[k][1] = firstResult[k][1]
         /\ IF firstResult[k][1] \in PinnedDocs /\ firstResult[k][1] \notin Ids(uniqueDocsArray)
            THEN /\ firstResult[k][2] = 0
                 /\ secondResult[k][2] = BASE_PIN_SCORE - MapGet(Placed, firstResult[k][1])
            ELSE secondResult[k][2] = firstResult[k][2]

\* the second call rescored a document promoted from outside and left a pinned
\* organic document and an unpinned one as they were
C6_Witness ==
  /\ pc = "reapplied" /\ ~storeChanged
  /\ secondResult # firstResult
  /\ \E k \in 1..Len(firstResult) :
       firstResult[k][1] \in PinnedDocs /\ firstResult[k][1] \in Ids(uniqueDocsArray)
  /\ \E k \in 1..Len(firstResult) : IsUnpinned(firstResult[k])

\* ---------------------------------------------------------------------
\* Step 2 of the splicer as the specification words it, on the flattened
\* sequence in matcher order: placed is a set of <<internalId, position>>
Step2Taken(placed) == {e[2] : e \in placed}
Step2Process(placed, promotion) ==
  LET id == IdOf(promotion)
      p == promotion.position
      old == {e \in placed : e[1] = id}
  IN IF id = NoId THEN placed
     ELSE IF p \in Step2Taken(placed) THEN placed
     ELSE IF old # {}
          THEN IF \A e \in old : p < e[2]
               THEN (placed \ old) \cup {<<id, p>>}
               ELSE placed
     ELSE placed \cup {<<id, p>>}

RECURSIVE Step2Placement(_, _)
Step2Placement(promotions, placed) ==
  IF promotions = <<>> THEN placed
  ELSE Step2Placement(Tail(promotions), Step2Process(placed, Head(promotions)))

\* C7 as stated: the placement computed by the call equals the placement of
\* Step 2 run over the promotions in matcher rule order and declaration order.
C7_PlacementFollowsStep2 ==
  Called => PlacedSet = Step2Placement(Flattened, {})

\* the promotions to position p whose document resolves and holds no smaller position
Contenders(p) ==
  {i \in 1..Len(Flattened) :
     /\ Flattened[i].position = p
     /\ Resolves(Flattened[i])
     /\ ~\E e \in PlacedSet : e[1] = IdOf(Flattened[i]) /\ e[2] < p}

MinOf(S) == CHOOSE x \in S : \A y \in S : x <= y

\* C7 amended: the placement is the one obtained by taking the promotions in
\* ascending order of position (equal positions in matcher rule order, then
\* declaration order), skipping an unresolvable doc_id, skipping a promotion
\* whose document is already placed (a placed document never moves) and
\* skipping a promotion whose position is already taken.  So each position
\* belongs to the first promotion to it whose document resolves and holds no
\* smaller position.
C7_PlacementByAscendingPosition ==
  Called =>
    /\ \A e \in PlacedSet : \E i \in 1..Len(Flattened) : Flattened[i].position = e[2]
    /\ Cardinality(PinnedDocs) = Len(Placed)
    /\ \A i \in 1..Len(Flattened) :
         LET p == Flattened[i].position IN
         {e \in PlacedSet : e[2] = p} =
           IF Contenders(p) = {} THEN {}
           ELSE {<<IdOf(Flattened[MinOf(Contenders(p))]), p>>}

\* the matcher order is not the position order, a document is promoted twice
\* and a position is promoted twice, and the placement is not that of Step 2
C7_Witness ==
  /\ pc = "applied"
  /\ PlacedSet # Step2Placement(Flattened, {})
  /\ Len(Placed) = 2
  /\ \E i, j \in 1..Len(Flattened) :
       i < j /\ Flattened[i].position > Flattened[j].position
             /\ Flattened[i].doc_id = Flattened[j].doc_id

\* ---------------------------------------------------------------------
\* the matched rules without promotion k of rule r (a rule left without
\* promotions is no rule)
RemovePromotion(rules, r, k) ==
  LET promote == rules[r].promote
      rest == SubSeq(promote, 1, k - 1) \o SubSeq(promote, k + 1, Len(promote))
  IN SubSeq(rules, 1, r - 1)
     \o (IF rest = <<>> THEN <<>> ELSE <<[rules[r] EXCEPT !.promote = rest]>>)
     \o SubSeq(rules, r + 1, Len(rules))

\* C10: a stale promotion changes nothing: the call returns what it returns
\* when that promotion is removed from its rule.
C10_StalePromotionIsDropped ==
  Called =>
    \A r \in 1..Len(matchingRules) :
      \A k \in 1..Len(matchingRules[r].promote) :
        Stale(matchingRules[r].promote[k]) =>
          firstResult = applyPinningRules(uniqueDocsArray, RemovePromotion(matchingRules, r, k),
                                          internalDocumentIDStore, documentsStore)

\* ---------------------------------------------------------------------
OrganicEntryKept(id) ==
  \A k \in 1..Len(uniqueDocsArray) :
    uniqueDocsArray[k][1] = id => uniqueDocsArray[k] \in Range(firstResult)

\* the promotions a of an earlier and b of a later matched rule promote two
\* different resolvable documents to the same position
Conflict(a, b) ==
  /\ a.position = b.position
  /\ Resolves(a) /\ Resolves(b)
  /\ IdOf(a) # IdOf(b)

\* C5 as stated: when two matched rules promote two different resolvable
\* documents to the same position, the document of the earlier rule occupies
\* that position in the output with a pin score, and the other document is not
\* pinned and stays among the unpinned results if it is in the organic list.
\* Stated here for the cases where both documents exist and the position lies
\* inside the organic list, so that neither a document that cannot be shown
\* nor a position beyond the list is involved.
C5_FirstRuleWins ==
  Called =>
    \A r1, r2 \in 1..Len(matchingRules) :
      r1 < r2 =>
        \A k1 \in 1..Len(matchingRules[r1].promote), k2 \in 1..Len(matchingRules[r2].promote) :
          LET a == matchingRules[r1].promote[k1]
              b == matchingRules[r2].promote[k2]
              p == a.position
          IN (/\ Conflict(a, b)
              /\ Exists(IdOf(a)) /\ Exists(IdOf(b))
              /\ p < Len(uniqueDocsArray)) =>
               /\ p < Len(firstResult)
               /\ firstResult[p + 1][1] = IdOf(a)
               /\ firstResult[p + 1][2] \in {BASE_PIN_SCORE - p, 0}
               /\ IdOf(b) \notin PinnedDocs
               /\ OrganicEntryKept(IdOf(b))

\* C5 amended: when two different resolvable documents are promoted to the
\* same position p, the document whose first promotion to p comes later (later
\* rule, or later in the flattened sequence) is placed at p only if the other
\* document is pinned to a smaller position.  When the matched rules are exactly two rules of one
\* promotion each, the document of the first rule owns p and the other
\* document is not pinned and stays among the unpinned results if it is in
\* the organic list; the owner appears with its pin score (1000000 - p if it
\* was in the organic list, 0 if it is only in the store) at index p, or as the
\* last entry when p is not smaller than the length of the output, and does
\* not appear if it is neither in the organic list nor in the store;
\* swapping the two rules makes the other document the owner.
C5_FirstWinsOwnership ==
  Called =>
    /\ \A i, j \in 1..Len(Flattened) :
         (/\ i < j
          /\ Conflict(Flattened[i], Flattened[j])
          /\ \A k \in 1..(j - 1) : Flattened[k] # Flattened[j]) =>
           (<<IdOf(Flattened[j]), Flattened[j].position>> \in PlacedSet
              => \E e \in PlacedSet :
                   e[1] = IdOf(Flattened[i]) /\ e[2] < Flattened[j].position)
    /\ (/\ Len(matchingRules) = 2
        /\ Len(matchingRules[1].promote) = 1
        /\ Len(matchingRules[2].promote) = 1
        /\ Conflict(matchingRules[1].promote[1], matchingRules[2].promote[1]))
       => LET a == matchingRules[1].promote[1]
              b == matchingRules[2].promote[1]
              p == a.position
              last == Len(firstResult)
          IN /\ Placed = << <<IdOf(a), p>> >>
             /\ Pins(<<matchingRules[2], matchingRules[1]>>,
                     internalDocumentIDStore).promotionsMap = << <<IdOf(b), p>> >>
             /\ OrganicEntryKept(IdOf(b))
             /\ IF IdOf(a) \in Ids(uniqueDocsArray)
                THEN firstResult[IF p < last THEN p + 1 ELSE last]
                       = <<IdOf(a), BASE_PIN_SCORE - p>>
                ELSE IF IdOf(a) \in documentsStore
                THEN firstResult[IF p < last THEN p + 1 ELSE last] = <<IdOf(a), 0>>
                ELSE firstResult = uniqueDocsArray

\* two rules of one promotion each conflict on a position; the first rule's
\* document, pinned from the organic list, took it and the other stayed unpinned
C5_Witness ==
  /\ pc = "applied"
  /\ Len(matchingRules) = 2
  /\ Len(matchingRules[1].promote) = 1
  /\ Len(matchingRules[2].promote) = 1
  /\ Conflict(matchingRules[1].promote[1], matchingRules[2].promote[1])
  /\ IdOf(matchingRules[1].promote[1]) \in Ids(uniqueDocsArray)
  /\ IdOf(matchingRules[2].promote[1]) \in Ids(uniqueDocsArray)
  /\ matchingRules[1].promote[1].position = 1
  /\ firstResult[2] = <<IdOf(matchingRules[1].promote[1]), BASE_PIN_SCORE - 1>>
  /\ IdOf(matchingRules[2].promote[1]) \in Ids(firstResult)

====
